---------------------------- MODULE Spec2Model ----------------------------
(***************************************************************************)
(* Springs-and-struts box layout: Row (src/out/Row.js) and Column          *)
(* (src/out/Column.js).                                                    *)
(*                                                                         *)
(* A Row and a Column are laid out side by side.  The Column's children    *)
(* are the Row's children with width and height data exchanged, and every  *)
(* step of the driver (a setter call, a sizing pass, a placement pass) is  *)
(* applied to both containers.                                             *)
(*                                                                         *)
(* Numbers.  The JavaScript code computes with doubles.  The model         *)
(* computes with exact rationals: every length is an integer count of      *)
(* 1/Scale units, where Scale is a common multiple of every divisor the     *)
(* code can divide by within the bounds (the number of springs, the        *)
(* available compressibility, and 2).  Rounding of doubles is not          *)
(* modelled.                                                               *)
(***************************************************************************)
EXTENDS Integers, Sequences, FiniteSets

\* ------------------------------------------------------------------ bounds
\* Largest number of children of a container.
MaxChildren == 2
\* Largest primary-axis natural size of a child, in whole units.
MaxNat == 2
\* Largest cross-axis natural size of a child, in whole units.
MaxCross == 1
\* Largest primary-axis size given to a container, in whole units.
MaxW == 2
\* The first MaxNested children of a container may be given new size
\* configurations between layout cycles.
MaxNested == 1

\* -------------------------------------------------------------- arithmetic
RECURSIVE GCD(_, _)
GCD(a, b) == IF b = 0 THEN a ELSE GCD(b, a % b)

LCM(a, b) == (a * b) \div GCD(a, b)

RECURSIVE LCMUpTo(_)
LCMUpTo(n) == IF n <= 1 THEN 1 ELSE LCM(n, LCMUpTo(n - 1))

\* One whole unit of length.  Every divisor of the code is at most
\* MaxChildren * MaxNat (availCompr), MaxChildren (numSprings) or 2.
Scale == LCMUpTo(IF MaxChildren * MaxNat < 2 THEN 2 ELSE MaxChildren * MaxNat)

\* JavaScript a / b, for the quotients the code forms (exact in 1/Scale units).
Quot(a, b) == a \div b

\* JavaScript (num / den) * x, the product of a ratio of two lengths and a
\* length: the ratio is reduced first, which keeps the exact value.
RatioTimes(num, den, x) ==
    LET g == GCD(num, den) IN
    IF num = 0 THEN 0 ELSE Quot((num \div g) * x, den \div g)

\* Math.max
Max(a, b) == IF a >= b THEN a ELSE b

\* Math.min
Min(a, b) == IF a <= b THEN a ELSE b

\* ----------------------------------------------------------------- SizeConfig
\* The unbounded maximum of an elastic SizeConfig: larger than every finite
\* length of the model, and absorbing under addition.
Infinity == Scale * (MaxChildren * (MaxNat + MaxCross + MaxW) + 1)

\* JavaScript a + b on numbers that may be the unbounded maximum.
Plus(a, b) == IF a = Infinity \/ b = Infinity THEN Infinity ELSE a + b

\* new SizeConfig(nat, min, max)
SizeConfig(nat, min, max) == [nat |-> nat, min |-> min, max |-> max]

\* SizeConfig.fixed(v)
fixed(v) == SizeConfig(v, v, v)

\* SizeConfig.elastic(v)
elastic(v) == SizeConfig(v, 0, Infinity)

\* ------------------------------------------------------------------- children
\* A child object as the containers see it: whether it is a Spring, its
\* position and size, and its two size configurations.
Child(spring, wConfig, hConfig) ==
    [spring |-> spring, x |-> 0, y |-> 0,
     w |-> wConfig.nat, h |-> hConfig.nat,
     wConfig |-> wConfig, hConfig |-> hConfig]

\* The same child seen with width and height exchanged.
Mirror(c) ==
    [spring |-> c.spring, x |-> c.y, y |-> c.x, w |-> c.h, h |-> c.w,
     wConfig |-> c.hConfig, hConfig |-> c.wConfig]

MirrorAll(kids) == [i \in DOMAIN kids |-> Mirror(kids[i])]

\* Size configurations of a non-spring child along the stacking axis:
\* natural n, min m <= n, max either n or unbounded.
PrimaryConfigs ==
    { SizeConfig(n * Scale, m * Scale, n * Scale) : <<n, m>> \in
        { t \in (1..MaxNat) \X (0..MaxNat) : t[2] <= t[1] } }

\* Size configurations of a non-spring child across the stacking axis.
CrossConfigs == { fixed(n * Scale) : n \in 1..MaxCross } \cup { elastic(0) }

\* The children a Row can hold: a Spring (natural size 0, elastic on both
\* axes) or another object with its own size configurations.
RowChildren ==
    { Child(TRUE, elastic(0), elastic(0)) }
    \cup { Child(FALSE, p, c) : p \in PrimaryConfigs, c \in CrossConfigs }

RowChildLists == UNION { [1..n -> RowChildren] : n \in 0..MaxChildren }

\* --------------------------------------------------------------------- Row
\* Row constructor: fixed in width, elastic in height, top justified.
RowNew(w, h) ==
    [w |-> w, h |-> h, wConfig |-> fixed(w), hConfig |-> elastic(h),
     just |-> "top"]

\* set hJustification(v) without the test against the current value.
Row_set_hJustification_Untested(self, v) ==
    <<[self EXCEPT !.just = v], <<(<<self.w, self.h>>)>> >>

\* set hJustification(v): the new container and the damage notifications
\* raised, each recorded as the <<w, h>> of the container when it was raised.
Row_set_hJustification(self, v) ==
    IF ~(v = self.just)
    THEN <<[self EXCEPT !.just = v], <<(<<self.w, self.h>>)>> >>
    ELSE <<self, <<>> >>

\* set w(v)
Row_set_w(self, v) ==
    IF ~(v = self.w)
    THEN <<[self EXCEPT !.w = v, !.wConfig = fixed(v)],
           <<(<<self.w, self.h>>), (<<v, self.h>>)>> >>
    ELSE <<self, <<>> >>

\* The sizing loop with the height max taken as the minimum of the child
\* maximums, as the comment at Row.js lines 75-76 words it.
RECURSIVE Row_sizingLoop_MinOfMaxes(_, _, _)
Row_sizingLoop_MinOfMaxes(kids, i, acc) ==
    IF i > Len(kids) THEN acc
    ELSE Row_sizingLoop_MinOfMaxes(kids, i + 1,
            [minW |-> Plus(acc.minW, kids[i].wConfig.min),
             naturalW |-> Plus(acc.naturalW, kids[i].wConfig.nat),
             maxW |-> Plus(acc.maxW, kids[i].wConfig.max),
             minH |-> Max(acc.minH, kids[i].hConfig.min),
             naturalH |-> Max(acc.naturalH, kids[i].hConfig.nat),
             maxH |-> IF i = 1 THEN kids[i].hConfig.max
                      ELSE Min(acc.maxH, kids[i].hConfig.max)])

\* The loop of _doLocalSizing over children i..Len(kids); acc holds
\* minW, naturalW, maxW, minH, naturalH, maxH.
RECURSIVE Row_sizingLoop(_, _, _)
Row_sizingLoop(kids, i, acc) ==
    IF i > Len(kids) THEN acc
    ELSE Row_sizingLoop(kids, i + 1,
            [minW |-> Plus(acc.minW, kids[i].wConfig.min),
             naturalW |-> Plus(acc.naturalW, kids[i].wConfig.nat),
             maxW |-> Plus(acc.maxW, kids[i].wConfig.max),
             minH |-> Max(acc.minH, kids[i].hConfig.min),
             naturalH |-> Max(acc.naturalH, kids[i].hConfig.nat),
             maxH |-> Max(acc.maxH, kids[i].hConfig.max)])

\* _doLocalSizing
Row_doLocalSizing(self, kids) ==
    LET r == Row_sizingLoop(kids, 1,
                [minW |-> 0, naturalW |-> 0, maxW |-> 0,
                 minH |-> 0, naturalH |-> 0, maxH |-> 0])
    IN [self EXCEPT !.hConfig = SizeConfig(r.naturalH, r.minH, r.maxH),
                    !.wConfig = SizeConfig(r.naturalW, r.minW, r.maxW)]

\* The loop of _measureChildren; acc is <<natSum, availCompr, numSprings>>.
RECURSIVE Row_measureLoop(_, _, _)
Row_measureLoop(kids, i, acc) ==
    IF i > Len(kids) THEN acc
    ELSE Row_measureLoop(kids, i + 1,
            IF kids[i].spring
            THEN <<acc[1], acc[2], acc[3] + 1>>
            ELSE <<acc[1] + kids[i].wConfig.nat,
                   acc[2] + (kids[i].wConfig.nat - kids[i].wConfig.min),
                   acc[3]>>)

\* _measureChildren
Row_measureChildren(kids) == Row_measureLoop(kids, 1, <<0, 0, 0>>)

\* _expandChildSprings giving every spring the whole excess.
Row_expandChildSprings_Undivided(kids, excess, numSprings) ==
    IF numSprings = 0 THEN kids
    ELSE [i \in DOMAIN kids |->
            IF kids[i].spring THEN [kids[i] EXCEPT !.w = excess]
            ELSE kids[i]]

\* _expandChildSprings
Row_expandChildSprings(kids, excess, numSprings) ==
    IF numSprings = 0 THEN kids
    ELSE LET eachExcess == Quot(excess, numSprings) IN
         [i \in DOMAIN kids |->
            IF kids[i].spring THEN [kids[i] EXCEPT !.w = eachExcess]
            ELSE kids[i]]

\* The compressed width with the fraction taken of the natural size instead
\* of the compressibility.
Row_compressedW_ByNatural(child, shortfall, availCompr) ==
    Max(child.wConfig.min,
        child.wConfig.nat
            - RatioTimes(child.wConfig.nat, availCompr, shortfall))

\* The compressed width taken off the child's current width instead of its
\* natural width.
Row_compressedW_FromCurrent(child, shortfall, availCompr) ==
    LET compr == child.wConfig.nat - child.wConfig.min IN
    Max(child.wConfig.min,
        child.w - RatioTimes(compr, availCompr, shortfall))

\* The width _compressChildren assigns to one non-spring child.
Row_compressedW(child, shortfall, availCompr) ==
    LET compr == child.wConfig.nat - child.wConfig.min IN
    Max(child.wConfig.min,
        child.wConfig.nat - RatioTimes(compr, availCompr, shortfall))

\* _compressChildren
Row_compressChildren(kids, shortfall, availCompr) ==
    [i \in DOMAIN kids |->
        IF ~kids[i].spring
        THEN [kids[i] EXCEPT !.w = Row_compressedW(kids[i], shortfall, availCompr)]
        ELSE kids[i]]

\* The first loop of the shortfall branch of _adjustChildren.
Row_zeroSprings(kids) ==
    [i \in DOMAIN kids |->
        IF kids[i].spring THEN [kids[i] EXCEPT !.w = 0] ELSE kids[i]]

\* _adjustChildren returning on availCompr = 0 before the springs are zeroed.
Row_adjustChildren_ReturnFirst(self, kids) ==
    LET m == Row_measureChildren(kids)
        excess == self.w - m[1]
    IN IF excess >= 0
       THEN Row_expandChildSprings(kids, excess, m[3])
       ELSE IF m[2] = 0
            THEN kids
            ELSE Row_compressChildren(Row_zeroSprings(kids),
                                      Min(m[2], -excess), m[2])

\* _adjustChildren
Row_adjustChildren(self, kids) ==
    LET m == Row_measureChildren(kids)
        natSum == m[1]
        availCompr == m[2]
        numSprings == m[3]
        excess == self.w - natSum
    IN IF excess >= 0
       THEN Row_expandChildSprings(kids, excess, numSprings)
       ELSE IF availCompr = 0
            THEN Row_zeroSprings(kids)
            ELSE Row_compressChildren(Row_zeroSprings(kids),
                                      Min(availCompr, -excess), availCompr)

\* The first loop leaving the child heights as they are.
Row_naturalHeights_Kept(kids) == kids

\* The first loop of _completeLocalLayout: child heights become natural.
Row_naturalHeights(kids) ==
    [i \in DOMAIN kids |-> [kids[i] EXCEPT !.h = kids[i].hConfig.nat]]

\* hMax of _completeLocalLayout over children i..Len(kids).
RECURSIVE Row_hMax(_, _, _)
Row_hMax(kids, i, hMax) ==
    IF i > Len(kids) THEN hMax
    ELSE Row_hMax(kids, i + 1, IF kids[i].h > hMax THEN kids[i].h ELSE hMax)

\* The switch on _hJustification in _completeLocalLayout.
Row_justify(just, selfH, childH) ==
    CASE just = "top" -> 0
      [] just = "center" -> Quot(selfH, 2) - Quot(childH, 2)
      [] just = "bottom" -> selfH - childH
      [] OTHER -> 0

\* The stacking loop advancing by the child's natural width instead of the
\* width it was given.
RECURSIVE Row_stack_ByNatural(_, _, _, _)
Row_stack_ByNatural(self, kids, i, xpos) ==
    IF i > Len(kids) THEN kids
    ELSE Row_stack_ByNatural(self,
            [kids EXCEPT ![i] = [kids[i] EXCEPT
                !.x = xpos, !.y = Row_justify(self.just, self.h, kids[i].h)]],
            i + 1, xpos + kids[i].wConfig.nat)

\* The second loop of _completeLocalLayout from child i on, xpos being the
\* running offset.
RECURSIVE Row_stack(_, _, _, _)
Row_stack(self, kids, i, xpos) ==
    IF i > Len(kids) THEN kids
    ELSE Row_stack(self,
            [kids EXCEPT ![i] = [kids[i] EXCEPT
                !.x = xpos, !.y = Row_justify(self.just, self.h, kids[i].h)]],
            i + 1, xpos + kids[i].w)

\* _completeLocalLayout without the test for an empty child list.
Row_completeLocalLayout_NoEarlyReturn(self, kids) ==
    LET adjusted == Row_naturalHeights(Row_adjustChildren(self, kids))
        hMax == Row_hMax(adjusted, 1, 0)
        me == [self EXCEPT !.h = hMax, !.hConfig.nat = hMax]
    IN <<me, Row_stack(me, adjusted, 1, 0)>>

\* _completeLocalLayout: the new container and the new children.
Row_completeLocalLayout(self, kids) ==
    IF Len(kids) = 0 THEN <<self, kids>>
    ELSE LET adjusted == Row_naturalHeights(Row_adjustChildren(self, kids))
             hMax == Row_hMax(adjusted, 1, 0)
             me == [self EXCEPT !.h = hMax, !.hConfig.nat = hMax]
         IN <<me, Row_stack(me, adjusted, 1, 0)>>

\* ------------------------------------------------------------------ Column
\* Column constructor: elastic in width, fixed in height, left justified.
ColumnNew(w, h) ==
    [w |-> w, h |-> h, wConfig |-> elastic(w), hConfig |-> fixed(h),
     just |-> "left"]

\* set wJustification(v)
Column_set_wJustification(self, v) ==
    IF ~(v = self.just)
    THEN <<[self EXCEPT !.just = v], <<(<<self.w, self.h>>)>> >>
    ELSE <<self, <<>> >>

\* set h(v) raising damage at the new size only.
Column_set_h_DamageAfter(self, v) ==
    IF ~(v = self.h)
    THEN <<[self EXCEPT !.h = v, !.hConfig = fixed(v)],
           <<(<<self.w, v>>)>> >>
    ELSE <<self, <<>> >>

\* set h(v)
Column_set_h(self, v) ==
    IF ~(v = self.h)
    THEN <<[self EXCEPT !.h = v, !.hConfig = fixed(v)],
           <<(<<self.w, self.h>>), (<<self.w, v>>)>> >>
    ELSE <<self, <<>> >>

\* The sizing loop leaving springs out of the sums.
RECURSIVE Column_sizingLoop_SkipSprings(_, _, _)
Column_sizingLoop_SkipSprings(kids, i, acc) ==
    IF i > Len(kids) THEN acc
    ELSE Column_sizingLoop_SkipSprings(kids, i + 1,
            IF kids[i].spring THEN acc
            ELSE [minH |-> Plus(acc.minH, kids[i].hConfig.min),
                  naturalH |-> Plus(acc.naturalH, kids[i].hConfig.nat),
                  maxH |-> Plus(acc.maxH, kids[i].hConfig.max),
                  minW |-> Max(acc.minW, kids[i].wConfig.min),
                  naturalW |-> Max(acc.naturalW, kids[i].wConfig.nat),
                  maxW |-> Max(acc.maxW, kids[i].wConfig.max)])

\* The loop of _doLocalSizing over children i..Len(kids).
RECURSIVE Column_sizingLoop(_, _, _)
Column_sizingLoop(kids, i, acc) ==
    IF i > Len(kids) THEN acc
    ELSE Column_sizingLoop(kids, i + 1,
            [minH |-> Plus(acc.minH, kids[i].hConfig.min),
             naturalH |-> Plus(acc.naturalH, kids[i].hConfig.nat),
             maxH |-> Plus(acc.maxH, kids[i].hConfig.max),
             minW |-> Max(acc.minW, kids[i].wConfig.min),
             naturalW |-> Max(acc.naturalW, kids[i].wConfig.nat),
             maxW |-> Max(acc.maxW, kids[i].wConfig.max)])

\* _doLocalSizing
Column_doLocalSizing(self, kids) ==
    LET r == Column_sizingLoop(kids, 1,
                [minW |-> 0, naturalW |-> 0, maxW |-> 0,
                 minH |-> 0, naturalH |-> 0, maxH |-> 0])
    IN [self EXCEPT !.hConfig = SizeConfig(r.naturalH, r.minH, r.maxH),
                    !.wConfig = SizeConfig(r.naturalW, r.minW, r.maxW)]

\* The loop of _measureChildren; acc is <<natSum, availCompr, numSprings>>.
RECURSIVE Column_measureLoop(_, _, _)
Column_measureLoop(kids, i, acc) ==
    IF i > Len(kids) THEN acc
    ELSE Column_measureLoop(kids, i + 1,
            IF kids[i].spring
            THEN <<acc[1], acc[2], acc[3] + 1>>
            ELSE <<acc[1] + kids[i].hConfig.nat,
                   acc[2] + (kids[i].hConfig.nat - kids[i].hConfig.min),
                   acc[3]>>)

\* _measureChildren
Column_measureChildren(kids) == Column_measureLoop(kids, 1, <<0, 0, 0>>)

\* _expandChildSprings
Column_expandChildSprings(kids, excess, numSprings) ==
    IF numSprings = 0 THEN kids
    ELSE LET eachExcess == Quot(excess, numSprings) IN
         [i \in DOMAIN kids |->
            IF kids[i].spring THEN [kids[i] EXCEPT !.h = eachExcess]
            ELSE kids[i]]

\* The compressed height computed from the width configuration.
Column_compressedH_AcrossAxis(child, shortfall, availCompr) ==
    LET compr == child.wConfig.nat - child.wConfig.min IN
    Max(child.wConfig.min,
        child.wConfig.nat - RatioTimes(compr, availCompr, shortfall))

\* The height _compressChildren assigns to one non-spring child.
Column_compressedH(child, shortfall, availCompr) ==
    LET compr == child.hConfig.nat - child.hConfig.min IN
    Max(child.hConfig.min,
        child.hConfig.nat - RatioTimes(compr, availCompr, shortfall))

\* _compressChildren
Column_compressChildren(kids, shortfall, availCompr) ==
    [i \in DOMAIN kids |->
        IF ~kids[i].spring
        THEN [kids[i] EXCEPT !.h = Column_compressedH(kids[i], shortfall, availCompr)]
        ELSE kids[i]]

\* The first loop of the shortfall branch of _adjustChildren.
Column_zeroSprings(kids) ==
    [i \in DOMAIN kids |->
        IF kids[i].spring THEN [kids[i] EXCEPT !.h = 0] ELSE kids[i]]

\* _adjustChildren
Column_adjustChildren(self, kids) ==
    LET m == Column_measureChildren(kids)
        natSum == m[1]
        availCompr == m[2]
        numSprings == m[3]
        excess == self.h - natSum
    IN IF excess >= 0
       THEN Column_expandChildSprings(kids, excess, numSprings)
       ELSE IF availCompr = 0
            THEN Column_zeroSprings(kids)
            ELSE Column_compressChildren(Column_zeroSprings(kids),
                                         Min(availCompr, -excess), availCompr)

\* The first loop of _completeLocalLayout: child widths become natural.
Column_naturalWidths(kids) ==
    [i \in DOMAIN kids |-> [kids[i] EXCEPT !.w = kids[i].wConfig.nat]]

\* wMax of _completeLocalLayout over children i..Len(kids).
RECURSIVE Column_wMax(_, _, _)
Column_wMax(kids, i, wMax) ==
    IF i > Len(kids) THEN wMax
    ELSE Column_wMax(kids, i + 1, IF kids[i].w > wMax THEN kids[i].w ELSE wMax)

\* The switch centering on the container alone, the child's half forgotten.
Column_justify_Uncentered(just, selfW, childW) ==
    CASE just = "left" -> 0
      [] just = "center" -> Quot(selfW, 2)
      [] just = "right" -> selfW - childW
      [] OTHER -> 0

\* The switch on _wJustification in _completeLocalLayout.
Column_justify(just, selfW, childW) ==
    CASE just = "left" -> 0
      [] just = "center" -> Quot(selfW, 2) - Quot(childW, 2)
      [] just = "right" -> selfW - childW
      [] OTHER -> 0

\* The second loop of _completeLocalLayout from child i on, ypos being the
\* running offset.
RECURSIVE Column_stack(_, _, _, _)
Column_stack(self, kids, i, ypos) ==
    IF i > Len(kids) THEN kids
    ELSE Column_stack(self,
            [kids EXCEPT ![i] = [kids[i] EXCEPT
                !.y = ypos, !.x = Column_justify(self.just, self.w, kids[i].w)]],
            i + 1, ypos + kids[i].h)

\* _completeLocalLayout: the new container and the new children.
Column_completeLocalLayout(self, kids) ==
    IF Len(kids) = 0 THEN <<self, kids>>
    ELSE LET adjusted == Column_naturalWidths(Column_adjustChildren(self, kids))
             wMax == Column_wMax(adjusted, 1, 0)
             me == [self EXCEPT !.w = wMax, !.wConfig.nat = wMax]
         IN <<me, Column_stack(me, adjusted, 1, 0)>>

\* ------------------------------------------------------------ state machine
VARIABLES
    row,        \* the Row: w, h, wConfig, hConfig, just (_hJustification)
    rowKids,    \* the Row's children, in list order
    col,        \* the Column: w, h, wConfig, hConfig, just (_wJustification)
    colKids,    \* the Column's children, in list order
    last,       \* the operation that produced this state
    rowDamage,  \* damageAll() calls of the Row during that operation
    colDamage   \* damageAll() calls of the Column during that operation

vars == <<row, rowKids, col, colKids, last, rowDamage, colDamage>>

\* Justification values given to the setters, as <<Row value, Column value>>;
\* the last pair is a value neither switch recognises.
Justifications ==
    { <<"top", "left">>, <<"center", "center">>, <<"bottom", "right">>,
      <<"justify", "justify">> }

\* Sizes given to the primary-axis setter and to the constructors.
PrimarySizes == { n * Scale : n \in 0..MaxW }

CrossSizes == { n * Scale : n \in 0..MaxCross }

Init ==
    /\ rowKids \in RowChildLists
    /\ colKids = MirrorAll(rowKids)
    /\ \E p \in PrimarySizes, c \in CrossSizes :
          /\ row = RowNew(p, c)
          /\ col = ColumnNew(c, p)
    /\ last = "new"
    /\ rowDamage = <<>>
    /\ colDamage = <<>>

\* row.w = v and column.h = v
SetPrimarySize(v) ==
    /\ row' = Row_set_w(row, v)[1]
    /\ rowDamage' = Row_set_w(row, v)[2]
    /\ col' = Column_set_h(col, v)[1]
    /\ colDamage' = Column_set_h(col, v)[2]
    /\ last' = "size"
    /\ UNCHANGED <<rowKids, colKids>>

\* row.hJustification = j[1] and column.wJustification = j[2]
SetJustification(j) ==
    /\ row' = Row_set_hJustification(row, j[1])[1]
    /\ rowDamage' = Row_set_hJustification(row, j[1])[2]
    /\ col' = Column_set_wJustification(col, j[2])[1]
    /\ colDamage' = Column_set_wJustification(col, j[2])[2]
    /\ last' = "just"
    /\ UNCHANGED <<rowKids, colKids>>

\* _doLocalSizing() on both containers
DoLocalSizing ==
    /\ row' = Row_doLocalSizing(row, rowKids)
    /\ col' = Column_doLocalSizing(col, colKids)
    /\ last' = "sizing"
    /\ rowDamage' = <<>>
    /\ colDamage' = <<>>
    /\ UNCHANGED <<rowKids, colKids>>

\* _completeLocalLayout() on both containers
CompleteLocalLayout ==
    /\ row' = Row_completeLocalLayout(row, rowKids)[1]
    /\ rowKids' = Row_completeLocalLayout(row, rowKids)[2]
    /\ col' = Column_completeLocalLayout(col, colKids)[1]
    /\ colKids' = Column_completeLocalLayout(col, colKids)[2]
    /\ last' = "layout"
    /\ rowDamage' = <<>>
    /\ colDamage' = <<>>

Next ==
    \/ \E v \in PrimarySizes : SetPrimarySize(v)
    \/ \E j \in Justifications : SetJustification(j)
    \/ DoLocalSizing
    \/ CompleteLocalLayout

Spec == Init /\ [][Next]_vars

\* The same containers over children whose size configurations change.
\* Between two layout cycles the sizing of non-spring child i gives it new
\* size configurations, as _doLocalSizing does for a child that is itself a
\* Row or a Column: p along the stacking axis and c across it.  The child's
\* position and size stay as the last placement pass left them.
ChildSizing(i, p, c) ==
    /\ last = "layout"
    /\ i \in DOMAIN rowKids
    /\ ~rowKids[i].spring
    /\ <<p, c>> # <<rowKids[i].wConfig, rowKids[i].hConfig>>
    /\ rowKids' = [rowKids EXCEPT ![i].wConfig = p, ![i].hConfig = c]
    /\ colKids' = [colKids EXCEPT ![i].hConfig = p, ![i].wConfig = c]
    /\ last' = "child"
    /\ rowDamage' = <<>>
    /\ colDamage' = <<>>
    /\ UNCHANGED <<row, col>>

NextCfg ==
    \/ \E v \in PrimarySizes : SetPrimarySize(v)
    \/ DoLocalSizing
    \/ CompleteLocalLayout
    \/ \E i \in 1..MaxNested, p \in PrimaryConfigs, c \in CrossConfigs :
          ChildSizing(i, p, c)

SpecCfg == Init /\ [][NextCfg]_vars

\* ------------------------------------------------------- claims: vocabulary
\* A container seen along its own axes: size and cfg are primary-axis data
\* (width in a Row, height in a Column), csize and ccfg cross-axis data.
RowAxes ==
    [size |-> row.w, csize |-> row.h, cfg |-> row.wConfig, ccfg |-> row.hConfig,
     just |-> CASE row.just = "top" -> "start" [] row.just = "center" -> "center"
                [] row.just = "bottom" -> "end" [] OTHER -> "other",
     kids |-> [i \in DOMAIN rowKids |->
                [spring |-> rowKids[i].spring,
                 pos |-> rowKids[i].x, size |-> rowKids[i].w,
                 cpos |-> rowKids[i].y, csize |-> rowKids[i].h,
                 cfg |-> rowKids[i].wConfig, ccfg |-> rowKids[i].hConfig]]]

ColumnAxes ==
    [size |-> col.h, csize |-> col.w, cfg |-> col.hConfig, ccfg |-> col.wConfig,
     just |-> CASE col.just = "left" -> "start" [] col.just = "center" -> "center"
                [] col.just = "right" -> "end" [] OTHER -> "other",
     kids |-> [i \in DOMAIN colKids |->
                [spring |-> colKids[i].spring,
                 pos |-> colKids[i].y, size |-> colKids[i].h,
                 cpos |-> colKids[i].x, csize |-> colKids[i].w,
                 cfg |-> colKids[i].hConfig, ccfg |-> colKids[i].wConfig]]]

RECURSIVE SumSeq(_)
SumSeq(s) == IF s = <<>> THEN 0 ELSE Head(s) + SumSeq(Tail(s))

MaxOf(S) == IF S = {} THEN 0 ELSE CHOOSE m \in S : \A x \in S : x <= m

Springs(c) == { i \in DOMAIN c.kids : c.kids[i].spring }

NonSprings(c) == { i \in DOMAIN c.kids : ~c.kids[i].spring }

\* natSum, availCompr and excess as section 4.2 and 4.3 of the specification
\* define them.
NatSum(c) ==
    SumSeq([i \in DOMAIN c.kids |->
              IF c.kids[i].spring THEN 0 ELSE c.kids[i].cfg.nat])

AvailCompr(c) ==
    SumSeq([i \in DOMAIN c.kids |->
              IF c.kids[i].spring THEN 0
              ELSE c.kids[i].cfg.nat - c.kids[i].cfg.min])

Excess(c) == c.size - NatSum(c)

\* The state follows a placement pass on containers that have children.
Placed == last = "layout" /\ Len(rowKids) > 0

\* ------------------------------------------------------------------ claims
\* With room to spare, every non-spring child has its natural primary size.
C1Natural(c) ==
    Excess(c) >= 0 =>
        \A i \in NonSprings(c) : c.kids[i].size = c.kids[i].cfg.nat

\* C1: after _completeLocalLayout on a Row (Column) that has children and
\* whose width (height) is at least the sum of the non-spring children's
\* primary naturals, every non-spring child's primary size equals its primary
\* natural size, whatever sizes the children held before the pass.
C1_NonSpringsKeepNatural ==
    Placed => C1Natural(RowAxes) /\ C1Natural(ColumnAxes)

\* One placement pass from c to d with excess E >= 0: with n > 0 springs
\* each spring is E/n wide and the springs sum to E; with no spring no
\* child's primary size changes.
C2Step(c, d) ==
    Excess(c) >= 0 =>
        LET n == Cardinality(Springs(c)) IN
        IF n > 0
        THEN /\ \A i \in Springs(c) : d.kids[i].size * n = Excess(c)
             /\ SumSeq([i \in DOMAIN d.kids |->
                          IF d.kids[i].spring THEN d.kids[i].size ELSE 0])
                    = Excess(c)
        ELSE \A i \in DOMAIN c.kids : d.kids[i].size = c.kids[i].size

\* C2: when _adjustChildren runs with excess E >= 0 and n > 0 springs, every
\* spring's primary size becomes exactly E/n, so the spring sizes sum to E;
\* with n = 0 no child's primary size is changed.
C2_SpringsShareExcess ==
    [][ (last' = "layout" /\ Len(rowKids) > 0) =>
            C2Step(RowAxes, RowAxes') /\ C2Step(ColumnAxes, ColumnAxes') ]_vars

\* A pass ran with two springs that do not get a whole number of units.
C2_Witness ==
    /\ Placed
    /\ Cardinality(Springs(RowAxes)) = 2
    /\ Excess(RowAxes) > 0
    /\ \E i \in Springs(RowAxes) :
          /\ rowKids[i].w * 2 = Excess(RowAxes)
          /\ rowKids[i].w % Scale # 0
          /\ colKids[i].h = rowKids[i].w

\* Shortfall with compressibility: the reductions are proportional, sum to
\* S = min(availCompr, -excess), and stop at the mins.
C3Compressed(c) ==
    (Excess(c) < 0 /\ AvailCompr(c) > 0) =>
        LET S == Min(AvailCompr(c), -Excess(c)) IN
        /\ SumSeq([i \in DOMAIN c.kids |->
                     IF c.kids[i].spring THEN 0
                     ELSE c.kids[i].cfg.nat - c.kids[i].size]) = S
        /\ \A i \in NonSprings(c) :
              /\ (c.kids[i].cfg.nat - c.kids[i].size) * AvailCompr(c)
                    = (c.kids[i].cfg.nat - c.kids[i].cfg.min) * S
              /\ c.kids[i].size >= c.kids[i].cfg.min

\* C3: after _adjustChildren with excess < 0 and availCompr > 0, with
\* S = min(availCompr, -excess): the non-spring children's reductions
\* (natural - assigned) sum to S, each reduction is
\* (natural - min)/availCompr * S, and no assigned size is below its min.
C3_CompressionConserved ==
    Placed => C3Compressed(RowAxes) /\ C3Compressed(ColumnAxes)

\* Two non-spring children of different compressibility were compressed by
\* less than all they can give, to sizes that are not whole units.
C3_Witness ==
    /\ Placed
    /\ Excess(RowAxes) < 0
    /\ -Excess(RowAxes) < AvailCompr(RowAxes)
    /\ \E i, j \in NonSprings(RowAxes) :
          /\ rowKids[i].wConfig.nat - rowKids[i].wConfig.min
                > rowKids[j].wConfig.nat - rowKids[j].wConfig.min
          /\ rowKids[j].wConfig.nat - rowKids[j].wConfig.min > 0
          /\ rowKids[i].w % Scale # 0
          /\ rowKids[j].w < rowKids[j].wConfig.nat
          /\ colKids[j].h = rowKids[j].w

\* In shortfall every spring is 0 wide.
C4Zeroed(c) ==
    Excess(c) < 0 => \A i \in Springs(c) : c.kids[i].size = 0

\* C4: whenever _adjustChildren runs with excess < 0, every spring child's
\* primary size is 0 afterwards, with availCompr = 0 and with availCompr > 0.
C4_SpringsZeroInShortfall ==
    Placed => C4Zeroed(RowAxes) /\ C4Zeroed(ColumnAxes)

\* A pass in shortfall, with nothing to compress, over a spring.
C4_Witness ==
    /\ Placed
    /\ Excess(RowAxes) < 0
    /\ AvailCompr(RowAxes) = 0
    /\ Springs(RowAxes) # {}
    /\ \A i \in Springs(RowAxes) : rowKids[i].w = 0 /\ colKids[i].h = 0

\* The children fit in the container unless the shortfall exceeds what the
\* children can give.
C5Fits(c) ==
    ~(Excess(c) < 0 /\ -Excess(c) > AvailCompr(c)) =>
        SumSeq([i \in DOMAIN c.kids |-> c.kids[i].size]) <= c.size

\* C5: after any placement pass on a container with children, the children's
\* primary sizes sum to at most the container's primary size, unless the pass
\* was in shortfall with -excess > availCompr.
C5_ChildrenFit ==
    Placed => C5Fits(RowAxes) /\ C5Fits(ColumnAxes)

\* Sum of sizes of which any may be unbounded.
SatSum(s) ==
    IF \E i \in DOMAIN s : s[i] = Infinity THEN Infinity ELSE SumSeq(s)

\* The primary-axis SizeConfig is the sum over all children.
C6Summed(c) ==
    /\ c.cfg.nat = SumSeq([i \in DOMAIN c.kids |-> c.kids[i].cfg.nat])
    /\ c.cfg.min = SumSeq([i \in DOMAIN c.kids |-> c.kids[i].cfg.min])
    /\ c.cfg.max = SatSum([i \in DOMAIN c.kids |-> c.kids[i].cfg.max])

\* C6: after _doLocalSizing the container's primary-axis SizeConfig (Row
\* wConfig, Column hConfig) has natural, min and max equal to the sums of the
\* children's primary naturals, mins and maxes, over every child including
\* springs, the max unbounded when any child's max is; (0, 0, 0) with no child.
C6_PrimaryConfigIsSum ==
    last = "sizing" => C6Summed(RowAxes) /\ C6Summed(ColumnAxes)

\* Sizing ran over two non-spring children of different naturals and mins.
C6_Witness ==
    /\ last = "sizing"
    /\ Len(rowKids) = 2
    /\ Springs(RowAxes) = {}
    /\ rowKids[1].wConfig.nat < rowKids[2].wConfig.nat
    /\ rowKids[1].wConfig.min > 0
    /\ row.wConfig.nat = rowKids[1].wConfig.nat + rowKids[2].wConfig.nat
    /\ row.wConfig.max < Infinity
    /\ col.hConfig = row.wConfig

\* The cross-axis SizeConfig is the piecewise maximum over all children.
C7Maxed(c) ==
    /\ c.ccfg.nat = MaxOf({ c.kids[i].ccfg.nat : i \in DOMAIN c.kids })
    /\ c.ccfg.min = MaxOf({ c.kids[i].ccfg.min : i \in DOMAIN c.kids })
    /\ c.ccfg.max = MaxOf({ c.kids[i].ccfg.max : i \in DOMAIN c.kids })

C8Packed(c) ==
    \A i \in DOMAIN c.kids :
        c.kids[i].pos = SumSeq([j \in 1..(i - 1) |-> c.kids[j].size])

C9Justified(c) ==
    \A i \in DOMAIN c.kids :
        CASE c.just = "start" -> c.kids[i].cpos = 0
          [] c.just = "center" -> 2 * c.kids[i].cpos = c.csize - c.kids[i].csize
          [] c.just = "end" -> c.kids[i].cpos = c.csize - c.kids[i].csize
          [] OTHER -> c.kids[i].cpos = 0

\* C9: after _completeLocalLayout each child's cross position is 0 for start
\* (top/left), (containerCrossSize - childCrossSize)/2 for center,
\* containerCrossSize - childCrossSize for end (bottom/right), and 0 for any
\* other stored justification value.
C9_CrossPositionFollowsJustification ==
    Placed => C9Justified(RowAxes) /\ C9Justified(ColumnAxes)

\* A centered child smaller than the container sits half the difference in.
C9_Witness ==
    /\ Placed
    /\ row.just = "center"
    /\ \E i \in DOMAIN rowKids :
          /\ rowKids[i].h < row.h
          /\ rowKids[i].y > 0
          /\ 2 * rowKids[i].y = row.h - rowKids[i].h
          /\ colKids[i].x = rowKids[i].y

\* Children take their cross natural size and the container shrink-wraps.
C10Wrapped(c) ==
    /\ \A i \in DOMAIN c.kids : c.kids[i].csize = c.kids[i].ccfg.nat
    /\ c.csize = MaxOf({ c.kids[i].ccfg.nat : i \in DOMAIN c.kids })

\* C10: after _completeLocalLayout on a container with at least one child,
\* every child's cross size equals its own cross natural size and the
\* container's cross size equals the maximum of the children's cross natural
\* sizes, whatever cross size the container had before the pass.
C10_ShrinkWrap ==
    Placed => C10Wrapped(RowAxes) /\ C10Wrapped(ColumnAxes)

\* The pass changed the container's cross size to that of its tallest child,
\* over children of different cross sizes.
C10_Witness ==
    /\ Placed
    /\ Len(rowKids) = 2
    /\ rowKids[1].h < rowKids[2].h
    /\ row.h = rowKids[2].hConfig.nat
    /\ col.w = row.h

\* One more sizing pass followed by one more placement pass on a container
\* and its children: the container and the children they leave.
RowAgain(self, kids) ==
    Row_completeLocalLayout(Row_doLocalSizing(self, kids), kids)

ColumnAgain(self, kids) ==
    Column_completeLocalLayout(Column_doLocalSizing(self, kids), kids)

\* C11: when a sizing pass has been followed by a placement pass, running
\* _doLocalSizing and then _completeLocalLayout a second time, with the
\* children, their SizeConfigs, the justification and the container's primary
\* size unchanged, leaves every child's position and size and the container's
\* size and SizeConfigs as the first run left them.
C11_SecondRunChangesNothing ==
    [][ (last = "sizing" /\ last' = "layout") =>
            /\ RowAgain(row', rowKids') = <<row', rowKids'>>
            /\ ColumnAgain(col', colKids') = <<col', colKids'>> ]_vars

\* A sizing and placement run that compressed two children to sizes that are
\* not whole units, and that a second run reproduces.
C11_Witness ==
    /\ Placed
    /\ Len(rowKids) = 2
    /\ row.wConfig.nat = NatSum(RowAxes)
    /\ row.wConfig.nat > row.w
    /\ \A i \in DOMAIN rowKids :
          /\ ~rowKids[i].spring
          /\ rowKids[i].w % Scale # 0
          /\ rowKids[i].w > rowKids[i].wConfig.min
    /\ RowAgain(row, rowKids) = <<row, rowKids>>
    /\ ColumnAgain(col, colKids) = <<col, colKids>>

\* C12: for the justification setter and the primary-axis size setter (Row
\* w, Column h), assigning a value equal to the current value changes no
\* state and raises no damage notification; assigning a different value to
\* the justification stores it and raises a damage notification.
C12_SettersTestForChange ==
    [][ /\ \A j \in Justifications : SetJustification(j) =>
              /\ IF j[1] = row.just
                 THEN row' = row /\ rowDamage' = <<>>
                 ELSE /\ row' = [row EXCEPT !.just = j[1]]
                      /\ rowDamage' = <<(<<row.w, row.h>>)>>
              /\ IF j[2] = col.just
                 THEN col' = col /\ colDamage' = <<>>
                 ELSE /\ col' = [col EXCEPT !.just = j[2]]
                      /\ colDamage' = <<(<<col.w, col.h>>)>>
              /\ UNCHANGED <<rowKids, colKids>>
        /\ \A v \in PrimarySizes : (SetPrimarySize(v) /\ v = row.w) =>
              /\ row' = row /\ rowDamage' = <<>>
              /\ col' = col /\ colDamage' = <<>>
              /\ UNCHANGED <<rowKids, colKids>> ]_vars

\* The justification was changed from its default and then assigned its
\* current value again: nothing was raised.
C12_Witness ==
    /\ last = "just"
    /\ row.just = "bottom"
    /\ col.just = "right"
    /\ rowDamage = <<>>
    /\ colDamage = <<>>

\* C13: assigning a new, different value v to the primary-axis size of a
\* container (Row w, Column h) sets that size to v, replaces that axis's
\* SizeConfig with fixed(v) = (v, v, v), and raises a damage notification
\* once at the old size and then once at the new size.
C13_SizeSetterPinsAndDamagesTwice ==
    [][ \A v \in PrimarySizes : (SetPrimarySize(v) /\ v # row.w) =>
          /\ row' = [row EXCEPT !.w = v, !.wConfig = SizeConfig(v, v, v)]
          /\ rowDamage' = <<(<<row.w, row.h>>), (<<v, row.h>>)>>
          /\ col' = [col EXCEPT !.h = v, !.hConfig = SizeConfig(v, v, v)]
          /\ colDamage' = <<(<<col.w, col.h>>), (<<col.w, v>>)>> ]_vars

\* The size was set to a positive value that differs from the old size and
\* from the children's natural sum: two notifications, old size then new.
C13_Witness ==
    /\ last = "size"
    /\ Len(rowKids) = 2
    /\ Len(rowDamage) = 2
    /\ rowDamage[1][1] # rowDamage[2][1]
    /\ rowDamage[2][1] = row.w
    /\ row.w > 0
    /\ row.wConfig = fixed(row.w)
    /\ NatSum(RowAxes) # row.w
    /\ Len(colDamage) = 2
    /\ colDamage[2][2] = col.h
    /\ col.hConfig = fixed(col.h)

\* C14: _completeLocalLayout on a container with zero children returns
\* without changing anything: the container's cross-axis size, primary-axis
\* size, both SizeConfigs and justification are all unchanged.
C14_EmptyLayoutIsNoOp ==
    [][ (CompleteLocalLayout /\ Len(rowKids) = 0 /\ Len(colKids) = 0) =>
          UNCHANGED <<row, rowKids, col, colKids>> ]_vars

\* A placement pass ran on an empty Row and Column whose cross-axis size is
\* not the zero an empty maximum would give.
C14_Witness ==
    /\ last = "layout"
    /\ Len(rowKids) = 0
    /\ Len(colKids) = 0
    /\ row.h > 0
    /\ col.w > 0

\* C15: Row and Column are mirror images: starting from the same child list
\* with every child's width and height data swapped, the same primary-axis
\* container size and the corresponding justification, every sequence of
\* sizing and placement passes leaves the Column's child positions, child
\* sizes, container size and SizeConfigs equal to the Row's with x/y and w/h
\* exchanged.
C15_ColumnMirrorsRow ==
    /\ ColumnAxes = RowAxes
    /\ colKids = MirrorAll(rowKids)

\* A placed, centred Row and Column of two children where compression gave
\* a child a size that is not a whole number and centring moved a child off
\* the leading edge.
C15_Witness ==
    /\ Placed
    /\ Len(rowKids) = 2
    /\ row.just = "center"
    /\ col.just = "center"
    /\ \E i \in DOMAIN rowKids :
          /\ ~rowKids[i].spring
          /\ rowKids[i].w % Scale # 0
          /\ colKids[i].h = rowKids[i].w
    /\ \E i \in DOMAIN rowKids :
          /\ rowKids[i].y > 0
          /\ colKids[i].x = rowKids[i].y
    /\ rowKids[2].x > 0
    /\ colKids[2].y = rowKids[2].x
    /\ col.w = row.h
    /\ col.wConfig = row.hConfig
    /\ col.hConfig = row.wConfig

WithinMinAndNatural(c) ==
    \A i \in NonSprings(c) :
        /\ c.kids[i].cfg.min <= c.kids[i].size
        /\ c.kids[i].size <= c.kids[i].cfg.nat

\* The early-return path alone: a placement pass with a shortfall and
\* nothing compressible leaves every non-spring child within min and natural.
\* Violated as well: the return at Row.js 131-132 assigns no size.
EarlyReturnWithin ==
    (Placed /\ Excess(RowAxes) < 0 /\ AvailCompr(RowAxes) = 0) =>
        WithinMinAndNatural(RowAxes)

\* C16: after every placement pass on a container with children, in any
\* reachable state (including after earlier passes at other container sizes
\* and after children's SizeConfigs changed between layout cycles), every
\* non-spring child's primary-axis size lies between its current
\* primary-axis min and natural, also when the shortfall path finds nothing
\* compressible and returns early.
C16_NonSpringsWithinMinAndNatural ==
    Placed => WithinMinAndNatural(RowAxes) /\ WithinMinAndNatural(ColumnAxes)

====
